---- MODULE Spec2Model ----
(***************************************************************************)
(* Coursework lifecycle engine of eduplatform-api: works, individual       *)
(* assignments, groups, submissions (livraisons) and evaluations, as the   *)
(* Express handlers read and write them through Prisma.                    *)
(*                                                                         *)
(* Conventions.  An absent request field (JavaScript undefined) is the     *)
(* string "UNDEF"; a NULL column is "NULL" for text columns, 0 for a       *)
(* nullable id (ids start at 1) and -1 for a nullable date.  Prisma        *)
(* ignores a data field whose value is undefined: on update the column     *)
(* keeps its value, on create it takes its default (NULL).                 *)
(***************************************************************************)
EXTENDS Integers, FiniteSets, Sequences, TLC

\* ------------------------------------------------------------------ bounds
MaxTime == 2
MaxLivraisons == 2
MaxEvaluations == 2
MaxTravaux == 2
MaxAffectations == 2
MaxGroupes == 1

VARIABLES now, travaux, affectations, groupes, membres, livraisons,
          evaluations, nextLivraisonId, nextEvaluationId, nextTravailId,
          nextAffectationId, nextGroupeId, resp, inflight

vars == <<now, travaux, affectations, groupes, membres, livraisons,
          evaluations, nextLivraisonId, nextEvaluationId, nextTravailId,
          nextAffectationId, nextGroupeId, resp, inflight>>

directory == <<travaux, affectations, groupes, membres, nextTravailId,
               nextAffectationId, nextGroupeId>>
tracker == <<livraisons, nextLivraisonId>>
ledger == <<evaluations, nextEvaluationId>>

\* --------------------------------------------------------------- directory
\* Accounts of the seed: one director, one instructor, three students.
\* The JWT payload of a login is {userId: compte.id, role: compte.role}.
Comptes ==
  { [userId |-> 1, role |-> "DIRECTEUR"],
    [userId |-> 2, role |-> "FORMATEUR"],
    [userId |-> 3, role |-> "ETUDIANT"],
    [userId |-> 4, role |-> "ETUDIANT"],
    [userId |-> 5, role |-> "ETUDIANT"] }

\* prisma.directeur.findUnique({where: {compteId}}) : profile id, 0 if none
directeurOf(userId) == IF userId = 1 THEN 1 ELSE 0

\* prisma.formateur.findUnique({where: {compteId}}) : profile id, 0 if none
formateurOf(userId) == IF userId = 2 THEN 1 ELSE 0

\* prisma.etudiant.findUnique({where: {compteId}}) : profile id, 0 if none
etudiantOf(userId) == IF userId >= 3 THEN userId - 2 ELSE 0

\* etudiant.compte.id of a student profile
compteOfEtudiant(etudiantId) == etudiantId + 2

\* authorizeRoles(...roles): TRUE when the request passes the role gate
\* a route mounted without its role gate
authorizeRoles_open(roles, user) == TRUE

authorizeRoles(roles, user) == user.role \in roles

\* ------------------------------------------------------------ store lookups
Find(table, id) == {r \in table : r.id = id}

\* livraison.evaluations (include: {evaluations: true})
evaluationsOf(livraisonId) == {e \in evaluations : e.livraisonId = livraisonId}

Idle == [pc |-> "idle"]

NoResp == [op |-> "none", by |-> 0, kind |-> "none", id |-> 0]

\* ------------------------------------------------------------- JavaScript
\* A note of the request body: given = FALSE is an absent field; otherwise
\* the value reads as the number num, and clean = FALSE is a string that
\* starts with that number and goes on with other characters ("21x").
\* Number("21x") is NaN and every comparison with NaN is false, while
\* parseFloat("21x") is 21.
jsLess(note, k) == note.clean /\ note.num < k

\* a comparison that never finds the note above the limit
jsGreater_never(note, k) == FALSE

jsGreater(note, k) == note.clean /\ note.num > k

parseFloat(note) == note.num

\* a presence test that lets the empty string through
falsy_undefinedOnly(v) == v = "UNDEF"

\* !v for a text field of the body: undefined and "" are falsy
falsy(v) == v \in {"UNDEF", ""}

\* a data object whose undefined fields are written as given
keepIfUndef_overwrite(v, old) == v

\* a data field given as undefined leaves the column alone on update
keepIfUndef(v, old) == IF v = "UNDEF" THEN old ELSE v

\* a data field given as undefined takes the column default on create
nullIfUndef(v) == IF v = "UNDEF" THEN "NULL" ELSE v

\* -------------------------------------------------------- Grading Ledger
\* Store constraints on evaluation.create.  The relation livraison ->
\* evaluations gives the foreign key (P2003 when the livraison is gone);
\* the uniqueness of livraisonId is the one the specification attributes
\* to the store (P2002).
evaluationUniqueViolation(livraisonId) == evaluationsOf(livraisonId) # {}

evaluationCreateError(livraisonId) ==
  IF Find(livraisons, livraisonId) = {} THEN "InvalidReference"
  ELSE IF evaluationUniqueViolation(livraisonId) THEN "DuplicateValue"
  ELSE "none"

\* errorHandler: the answer to a Prisma error passed to next(error)
errorHandler(code) ==
  CASE code = "P2002" -> "DuplicateValue"
    [] code = "P2025" -> "RecordNotFound"
    [] code = "P2003" -> "InvalidReference"
    [] OTHER -> "InternalError"

\* POST /evaluations, up to the first await: role gate and body validation
gradeCheck(user, body) ==
  IF ~authorizeRoles({"FORMATEUR", "DIRECTEUR"}, user) THEN "Forbidden"
  ELSE IF body.livraisonId = 0 \/ ~body.note.given THEN "MissingField"
  ELSE IF jsLess(body.note, 0) \/ jsGreater(body.note, 20) THEN "OutOfRange"
  ELSE "pass"

\* prisma.livraison.findUnique({include: {evaluations: true}})
gradeRead(body) ==
  [found |-> Find(livraisons, body.livraisonId) # {},
   evaluated |-> evaluationsOf(body.livraisonId) # {}]

\* the handler without its "déjà évaluée" check
gradeAlreadyGraded_unchecked(snap) == FALSE

\* livraison.evaluations.length > 0, on what was read
gradeAlreadyGraded(snap) == snap.evaluated

gradeDecide(user, snap) ==
  IF ~snap.found THEN "NotFound"
  ELSE IF gradeAlreadyGraded(snap) THEN "AlreadyGraded"
  ELSE IF formateurOf(user.userId) = 0 /\ user.role # "DIRECTEUR"
       THEN "ProfileNotFound"
  ELSE "create"

\* the answer of the request once prisma.evaluation.create has run
gradeOutcome(body, verdict) ==
  IF verdict # "create" THEN verdict
  ELSE IF evaluationCreateError(body.livraisonId) = "InvalidReference"
       THEN errorHandler("P2003")
  ELSE IF evaluationCreateError(body.livraisonId) = "DuplicateValue"
       THEN errorHandler("P2002")
  ELSE "Created"

newEvaluation(user, body) ==
  [id |-> nextEvaluationId,
   livraisonId |-> body.livraisonId,
   note |-> parseFloat(body.note),
   commentaire |-> nullIfUndef(body.commentaire),
   evaluateurId |-> formateurOf(user.userId),
   dateEvaluation |-> now,
   modificateurId |-> 0,
   dateModification |-> -1,
   raisonModification |-> "NULL"]

gradeCommit(user, body, outcome) ==
  IF outcome = "Created"
  THEN /\ nextEvaluationId <= MaxEvaluations
       /\ evaluations' = evaluations \cup {newEvaluation(user, body)}
       /\ nextEvaluationId' = nextEvaluationId + 1
  ELSE UNCHANGED ledger

\* the answer of POST /evaluations when it runs as one step
gradeResponse(user, body) ==
  gradeOutcome(body, IF gradeCheck(user, body) # "pass"
                     THEN gradeCheck(user, body)
                     ELSE gradeDecide(user, gradeRead(body)))

\* POST /evaluations as one step
grade(user, body) ==
  LET outcome == gradeResponse(user, body)
  IN /\ gradeCommit(user, body, outcome)
     /\ resp' = [op |-> "grade", by |-> user.userId, kind |-> outcome,
                 id |-> body.livraisonId]
     /\ UNCHANGED <<now, directory, tracker, inflight>>

\* PUT /evaluations/:id, every check before prisma.evaluation.update
overrideCheck(user, id, body) ==
  IF ~authorizeRoles({"DIRECTEUR"}, user) THEN "Forbidden"
  ELSE IF falsy(body.raisonModification) THEN "MissingReason"
  ELSE IF body.note.given /\ (jsLess(body.note, 0) \/ jsGreater(body.note, 20))
       THEN "OutOfRange"
  ELSE IF directeurOf(user.userId) = 0 THEN "ProfileNotFound"
  ELSE IF Find(evaluations, id) = {} THEN errorHandler("P2025")
  ELSE "Ok"

\* an update that writes the reason and the time but not the director
overridden_unstamped(e, user, body) ==
  [e EXCEPT !.note = IF body.note.given THEN parseFloat(body.note) ELSE @,
            !.commentaire = keepIfUndef(body.commentaire, @),
            !.dateModification = now,
            !.raisonModification = body.raisonModification]

\* an update that writes the note and the comment and no audit field
overridden_silent(e, user, body) ==
  [e EXCEPT !.note = IF body.note.given THEN parseFloat(body.note) ELSE @,
            !.commentaire = keepIfUndef(body.commentaire, @)]

\* prisma.evaluation.update: the fields of the data object, undefined ones
\* being left as they are
overridden(e, user, body) ==
  [e EXCEPT !.note = IF body.note.given THEN parseFloat(body.note) ELSE @,
            !.commentaire = keepIfUndef(body.commentaire, @),
            !.dateModification = now,
            !.modificateurId = directeurOf(user.userId),
            !.raisonModification = body.raisonModification]

\* PUT /evaluations/:id as one step
override(user, id, body) ==
  LET outcome == overrideCheck(user, id, body)
  IN /\ IF outcome = "Ok"
        THEN evaluations' = {IF e.id = id THEN overridden(e, user, body) ELSE e
                               : e \in evaluations}
        ELSE UNCHANGED evaluations
     /\ resp' = [op |-> "override", by |-> user.userId, kind |-> outcome,
                 id |-> id]
     /\ UNCHANGED <<now, directory, tracker, nextEvaluationId, inflight>>

\* ----------------------------------------------------- Submission Tracker
\* the livraisons of an owner: affectation.livraisons, groupe.livraisons
livraisonsOfAffectation(affectationId) ==
  {l \in livraisons : l.affectationId = affectationId}

livraisonsOfGroupe(groupeId) == {l \in livraisons : l.groupeId = groupeId}

travailOf(travailId) == CHOOSE t \in travaux : t.id = travailId

\* the handler without its date check
notStarted_never(travail, t) == FALSE

\* now < travail.dateDebut
notStarted(travail, t) == t < travail.dateDebut

\* late from the deadline itself on
statutAt_inclusive(travail, t) ==
  IF t >= travail.dateFin THEN "EN_RETARD" ELSE "LIVRE"

\* const statut = now > travail.dateFin ? "EN_RETARD" : "LIVRE"
statutAt(travail, t) == IF t > travail.dateFin THEN "EN_RETARD" ELSE "LIVRE"

\* !contenu && !fichierUrl
emptyBody(body) == falsy(body.contenu) /\ falsy(body.fichierUrl)

\* the handler without its check of the assignment's student
isAssignee_anyone(affectation, userId) == TRUE

\* affectation.etudiant.compte.id === userId (the handler refuses its
\* negation)
isAssignee(affectation, userId) ==
  compteOfEtudiant(affectation.etudiantId) = userId

\* POST /submissions/individual/:affectationId, every check before the
\* lookup of an existing livraison
submitIndividualCheck(user, affectationId, body) ==
  IF ~authorizeRoles({"ETUDIANT"}, user) THEN "Forbidden"
  ELSE IF emptyBody(body) THEN "MissingField"
  ELSE IF Find(affectations, affectationId) = {} THEN "NotFound"
  ELSE LET affectation == CHOOSE a \in affectations : a.id = affectationId
       IN IF ~isAssignee(affectation, user.userId)
          THEN "Forbidden"
          ELSE IF notStarted(travailOf(affectation.travailId), now)
          THEN "NotStarted"
          ELSE "pass"

\* POST /submissions/group/:groupeId, every check before the lookup of an
\* existing livraison
submitGroupCheck(user, groupeId, body) ==
  IF ~authorizeRoles({"ETUDIANT"}, user) THEN "Forbidden"
  ELSE IF emptyBody(body) THEN "MissingField"
  ELSE IF ~\E m \in membres : /\ m.groupeId = groupeId
                              /\ m.etudiantId = etudiantOf(user.userId)
       THEN "Forbidden"
  ELSE IF Find(groupes, groupeId) = {} THEN "NotFound"
  ELSE LET groupe == CHOOSE g \in groupes : g.id = groupeId
       IN IF notStarted(travailOf(groupe.travailId), now)
          THEN "NotStarted"
          ELSE "pass"

\* prisma.livraison.findFirst({where: {affectationId}}) or {groupeId}: the
\* id of one matching row, 0 when there is none
findFirstId(rows) == IF rows = {} THEN {0} ELSE {l.id : l \in rows}

\* the answer once the update or the create has run: updating a row that
\* is gone is Prisma's P2025
submitOutcome(existingId) ==
  IF existingId # 0 /\ Find(livraisons, existingId) = {}
  THEN errorHandler("P2025")
  ELSE "Submitted"

\* prisma.livraison.update({data: {contenu, fichierUrl, dateLivraison, statut}})
resubmitted(l, body, statut) ==
  [l EXCEPT !.contenu = keepIfUndef(body.contenu, @),
            !.fichierUrl = keepIfUndef(body.fichierUrl, @),
            !.dateLivraison = now,
            !.statut = statut]

\* prisma.livraison.create({data: {affectationId | groupeId, contenu,
\* fichierUrl, statut}}); dateLivraison takes the column default, the
\* time of the insert
newLivraison(affectationId, groupeId, body, statut) ==
  [id |-> nextLivraisonId,
   affectationId |-> affectationId,
   groupeId |-> groupeId,
   contenu |-> nullIfUndef(body.contenu),
   fichierUrl |-> nullIfUndef(body.fichierUrl),
   dateLivraison |-> now,
   statut |-> statut]

submitCommit(affectationId, groupeId, body, statut, existingId, outcome) ==
  IF outcome # "Submitted" THEN UNCHANGED tracker
  ELSE IF existingId # 0
  THEN /\ livraisons' = {IF l.id = existingId
                         THEN resubmitted(l, body, statut) ELSE l
                           : l \in livraisons}
       /\ UNCHANGED nextLivraisonId
  ELSE /\ nextLivraisonId <= MaxLivraisons
       /\ livraisons' = livraisons \cup
                          {newLivraison(affectationId, groupeId, body, statut)}
       /\ nextLivraisonId' = nextLivraisonId + 1

\* the work an owner belongs to
travailOfAffectation(affectationId) ==
  travailOf((CHOOSE a \in affectations : a.id = affectationId).travailId)

travailOfGroupe(groupeId) ==
  travailOf((CHOOSE g \in groupes : g.id = groupeId).travailId)

\* POST /submissions/individual/:affectationId as one step
submitIndividual(user, affectationId, body) ==
  LET check == submitIndividualCheck(user, affectationId, body)
  IN /\ IF check # "pass"
        THEN /\ UNCHANGED tracker
             /\ resp' = [op |-> "submitIndividual", by |-> user.userId,
                         kind |-> check, id |-> affectationId]
        ELSE \E existingId \in
                 findFirstId(livraisonsOfAffectation(affectationId)) :
               /\ submitCommit(affectationId, 0, body,
                    statutAt(travailOfAffectation(affectationId), now),
                    existingId, submitOutcome(existingId))
               /\ resp' = [op |-> "submitIndividual", by |-> user.userId,
                           kind |-> submitOutcome(existingId),
                           id |-> affectationId]
     /\ UNCHANGED <<now, directory, ledger, inflight>>

\* POST /submissions/group/:groupeId as one step
submitGroup(user, groupeId, body) ==
  LET check == submitGroupCheck(user, groupeId, body)
  IN /\ IF check # "pass"
        THEN /\ UNCHANGED tracker
             /\ resp' = [op |-> "submitGroup", by |-> user.userId,
                         kind |-> check, id |-> groupeId]
        ELSE \E existingId \in findFirstId(livraisonsOfGroupe(groupeId)) :
               /\ submitCommit(0, groupeId, body,
                    statutAt(travailOfGroupe(groupeId), now),
                    existingId, submitOutcome(existingId))
               /\ resp' = [op |-> "submitGroup", by |-> user.userId,
                           kind |-> submitOutcome(existingId),
                           id |-> groupeId]
     /\ UNCHANGED <<now, directory, ledger, inflight>>

\* hasAccess of PUT and DELETE /submissions/:id: the account is the
\* assignment's student or a member of the owning group
hasAccess(l, userId) ==
  \/ /\ l.affectationId # 0
     /\ \E a \in affectations : /\ a.id = l.affectationId
                                /\ compteOfEtudiant(a.etudiantId) = userId
  \/ /\ l.groupeId # 0
     /\ \E m \in membres : /\ m.groupeId = l.groupeId
                           /\ compteOfEtudiant(m.etudiantId) = userId

\* the handlers without their "déjà évaluée" check
alreadyEvaluated_never(id) == FALSE

\* livraison.evaluations.length > 0
alreadyEvaluated(id) == evaluationsOf(id) # {}

\* the checks shared by PUT /submissions/:id and DELETE /submissions/:id
mutationCheck(user, id) ==
  IF ~authorizeRoles({"ETUDIANT"}, user) THEN "Forbidden"
  ELSE IF Find(livraisons, id) = {} THEN "NotFound"
  ELSE IF ~hasAccess(CHOOSE l \in livraisons : l.id = id, user.userId)
       THEN "Forbidden"
  ELSE IF alreadyEvaluated(id) THEN "AlreadyEvaluated"
  ELSE "Ok"

\* prisma.livraison.update({data: {contenu?, fichierUrl?, dateLivraison}})
amended(l, body) ==
  [l EXCEPT !.contenu = keepIfUndef(body.contenu, @),
            !.fichierUrl = keepIfUndef(body.fichierUrl, @),
            !.dateLivraison = now]

\* PUT /submissions/:id as one step
amend(user, id, body) ==
  LET outcome == mutationCheck(user, id)
  IN /\ IF outcome = "Ok"
        THEN livraisons' = {IF l.id = id THEN amended(l, body) ELSE l
                              : l \in livraisons}
        ELSE UNCHANGED livraisons
     /\ resp' = [op |-> "amend", by |-> user.userId, kind |-> outcome,
                 id |-> id]
     /\ UNCHANGED <<now, directory, nextLivraisonId, ledger, inflight>>

\* DELETE /submissions/:id as one step
withdraw(user, id) ==
  LET outcome == mutationCheck(user, id)
  IN /\ IF outcome = "Ok"
        THEN livraisons' = {l \in livraisons : l.id # id}
        ELSE UNCHANGED livraisons
     /\ resp' = [op |-> "withdraw", by |-> user.userId, kind |-> outcome,
                 id |-> id]
     /\ UNCHANGED <<now, directory, nextLivraisonId, ledger, inflight>>

\* the clock of new Date() moves on between requests; resp is the answer
\* given in the step, none here
Tick ==
  /\ now < MaxTime
  /\ now' = now + 1
  /\ resp' = NoResp
  /\ UNCHANGED <<directory, tracker, ledger, inflight>>

\* ------------------------------------------------------------ request bodies
NoteInputs ==
  { [given |-> FALSE, num |-> 0, clean |-> TRUE],
    [given |-> TRUE, num |-> -1, clean |-> TRUE],
    [given |-> TRUE, num |-> 0, clean |-> TRUE],
    [given |-> TRUE, num |-> 20, clean |-> TRUE],
    [given |-> TRUE, num |-> 21, clean |-> TRUE],
    [given |-> TRUE, num |-> 21, clean |-> FALSE] }

GradeBodies ==
  [livraisonId : 0..MaxLivraisons, note : NoteInputs,
   commentaire : {"UNDEF", "k"}]

OverrideBodies ==
  [note : NoteInputs, commentaire : {"UNDEF", "m"},
   raisonModification : {"UNDEF", "", "r"}]

\* --------------------------------------------------------- seeded states
\* The seed's first work: individual, one assignment per student, and a
\* livraison created for an assignment.
InitLedger ==
  /\ now = 0
  /\ travaux = {[id |-> 1, typeTravail |-> "INDIVIDUEL",
                 modeGroupe |-> "NON_APPLICABLE",
                 dateDebut |-> 0, dateFin |-> MaxTime]}
  /\ nextTravailId = 2
  /\ affectations = {[id |-> 1, travailId |-> 1, etudiantId |-> 1,
                      estSupprime |-> FALSE]}
  /\ nextAffectationId = 2
  /\ nextGroupeId = 1
  /\ groupes = {}
  /\ membres = {}
  /\ livraisons = {[id |-> 1, affectationId |-> 1, groupeId |-> 0,
                    contenu |-> "a", fichierUrl |-> "u",
                    dateLivraison |-> 0, statut |-> "LIVRE"]}
  /\ nextLivraisonId = 2
  /\ evaluations = {}
  /\ nextEvaluationId = 1
  /\ resp = NoResp
  /\ inflight = [s \in {1, 2} |-> Idle]

\* the director, the instructor and a student
LedgerUsers == {c \in Comptes : c.userId <= 3}

NextLedger ==
  \/ \E user \in LedgerUsers, body \in GradeBodies : grade(user, body)
  \/ \E user \in LedgerUsers, id \in 1..MaxEvaluations, body \in OverrideBodies :
       override(user, id, body)
  \/ Tick

SpecLedger == InitLedger /\ [][NextLedger]_vars

\* a submit body may carry a statut of its own: the handlers read contenu
\* and fichierUrl only
SubmitBodies ==
  [contenu : {"UNDEF", "a", "b"}, fichierUrl : {"UNDEF", "u"},
   statut : {"UNDEF", "LIVRE"}]

AmendBodies == [contenu : {"UNDEF", "a", "b"}, fichierUrl : {"UNDEF", "u"}]

\* a grade request that passes validation, for the specifications about
\* submissions
PlainGrades ==
  [livraisonId : 1..MaxLivraisons,
   note : {[given |-> TRUE, num |-> 20, clean |-> TRUE]},
   commentaire : {"UNDEF"}]

\* One work with its window, and its owner: assignment 1 of student 1 for
\* an individual work, group 1 of students 1 and 2 for a collective one.
\* The seed also creates a livraison for an assignment whatever the window
\* of its work.
Init ==
  /\ now = 0
  /\ \E type \in {"INDIVIDUEL", "COLLECTIF"}, debut \in 0..1, fin \in {1},
        seeded \in BOOLEAN :
       /\ seeded => type = "INDIVIDUEL"
       /\ livraisons = IF seeded
                       THEN {[id |-> 1, affectationId |-> 1, groupeId |-> 0,
                              contenu |-> "a", fichierUrl |-> "u",
                              dateLivraison |-> 0, statut |-> "LIVRE"]}
                       ELSE {}
       /\ nextLivraisonId = IF seeded THEN 2 ELSE 1
       /\ travaux = {[id |-> 1, typeTravail |-> type,
                      modeGroupe |-> IF type = "INDIVIDUEL"
                                     THEN "NON_APPLICABLE" ELSE "FORMATEUR",
                      dateDebut |-> debut, dateFin |-> fin]}
       /\ affectations = IF type = "INDIVIDUEL"
                         THEN {[id |-> 1, travailId |-> 1, etudiantId |-> 1,
                                estSupprime |-> FALSE]}
                         ELSE {}
       /\ groupes = IF type = "COLLECTIF"
                    THEN {[id |-> 1, travailId |-> 1, nomGroupe |-> "g",
                           modeFormation |-> "FORMATEUR", createurId |-> 1]}
                    ELSE {}
       /\ membres = IF type = "COLLECTIF"
                    THEN {[groupeId |-> 1, etudiantId |-> 1],
                          [groupeId |-> 1, etudiantId |-> 2]}
                    ELSE {}
  /\ nextTravailId = 2
  /\ nextAffectationId = 2
  /\ nextGroupeId = 2
  /\ evaluations = {}
  /\ nextEvaluationId = 1
  /\ resp = NoResp
  /\ inflight = [s \in {1, 2} |-> Idle]

TrackerUsers == {c \in Comptes : c.userId \in {2, 3, 5}}

Next ==
  \/ \E user \in TrackerUsers, body \in SubmitBodies :
       submitIndividual(user, 1, body)
  \/ \E user \in TrackerUsers, body \in SubmitBodies :
       submitGroup(user, 1, body)
  \/ \E user \in TrackerUsers, id \in 1..MaxLivraisons, body \in AmendBodies :
       amend(user, id, body)
  \/ \E user \in TrackerUsers, id \in 1..MaxLivraisons : withdraw(user, id)
  \/ \E user \in {c \in Comptes : c.role = "FORMATEUR"}, body \in PlainGrades :
       grade(user, body)
  \/ Tick

Spec == Init /\ [][Next]_vars

\* -------------------------------------------------- Assignment Distributor
\* a date of a work body: -1 is an absent field
absentDate(d) == d = -1

\* the required fields of POST /works the model carries: !typeTravail,
\* !dateDebut, !dateFin
createWorkMissing(body) ==
  falsy(body.typeTravail) \/ absentDate(body.dateDebut) \/ absentDate(body.dateFin)

\* the mode stored without the handler's normalisation of individual work
finalModeGroupe_asGiven(body) ==
  IF falsy(body.modeGroupe) THEN "NON_APPLICABLE" ELSE body.modeGroupe

\* let finalModeGroupe = modeGroupe || 'NON_APPLICABLE';
\* if (typeTravail === 'INDIVIDUEL') finalModeGroupe = 'NON_APPLICABLE'
finalModeGroupe(body) ==
  IF body.typeTravail = "INDIVIDUEL" THEN "NON_APPLICABLE"
  ELSE IF falsy(body.modeGroupe) THEN "NON_APPLICABLE" ELSE body.modeGroupe

\* the answer of POST /works
createWorkResponse(user, body) ==
  IF ~authorizeRoles({"FORMATEUR", "DIRECTEUR"}, user) THEN "Forbidden"
  ELSE IF createWorkMissing(body) THEN "MissingField"
  ELSE IF formateurOf(user.userId) = 0 THEN "ProfileNotFound"
  ELSE IF /\ body.typeTravail = "COLLECTIF"
          /\ finalModeGroupe(body) = "NON_APPLICABLE"
       THEN "InvalidConfiguration"
  ELSE "Created"

newTravail(body) ==
  [id |-> nextTravailId,
   typeTravail |-> body.typeTravail,
   modeGroupe |-> finalModeGroupe(body),
   dateDebut |-> body.dateDebut,
   dateFin |-> body.dateFin]

\* POST /works as one step
createWork(user, body) ==
  LET outcome == createWorkResponse(user, body)
  IN /\ IF outcome = "Created"
        THEN /\ nextTravailId <= MaxTravaux
             /\ travaux' = travaux \cup {newTravail(body)}
             /\ nextTravailId' = nextTravailId + 1
        ELSE UNCHANGED <<travaux, nextTravailId>>
     /\ resp' = [op |-> "createWork", by |-> user.userId, kind |-> outcome,
                 id |-> IF outcome = "Created" THEN nextTravailId ELSE 0]
     /\ UNCHANGED <<now, affectations, groupes, membres, nextAffectationId,
                    nextGroupeId, tracker, ledger, inflight>>

\* the answer of PUT /works/:id: the role gate, then prisma.travail.update
updateWorkResponse(user, id) ==
  IF ~authorizeRoles({"FORMATEUR", "DIRECTEUR"}, user) THEN "Forbidden"
  ELSE IF Find(travaux, id) = {} THEN errorHandler("P2025")
  ELSE "Ok"

\* data: {...(typeTravail && {typeTravail}),
\*        ...(modeGroupe !== undefined && {modeGroupe}),
\*        ...(dateDebut && {dateDebut}), ...(dateFin && {dateFin})}
updatedTravail(t, body) ==
  [t EXCEPT !.typeTravail = IF falsy(body.typeTravail) THEN @
                            ELSE body.typeTravail,
            !.modeGroupe = keepIfUndef(body.modeGroupe, @),
            !.dateDebut = IF absentDate(body.dateDebut) THEN @
                          ELSE body.dateDebut,
            !.dateFin = IF absentDate(body.dateFin) THEN @ ELSE body.dateFin]

\* PUT /works/:id as one step
updateWork(user, id, body) ==
  LET outcome == updateWorkResponse(user, id)
  IN /\ IF outcome = "Ok"
        THEN travaux' = {IF t.id = id THEN updatedTravail(t, body) ELSE t
                           : t \in travaux}
        ELSE UNCHANGED travaux
     /\ resp' = [op |-> "updateWork", by |-> user.userId, kind |-> outcome,
                 id |-> id]
     /\ UNCHANGED <<now, affectations, groupes, membres, nextTravailId,
                    nextAffectationId, nextGroupeId, tracker, ledger,
                    inflight>>

WorkBodies ==
  [typeTravail : {"UNDEF", "INDIVIDUEL", "COLLECTIF"},
   modeGroupe : {"UNDEF", "NON_APPLICABLE", "FORMATEUR", "ETUDIANT"},
   dateDebut : {-1, 0}, dateFin : {-1, 1}]

\* The store before any work is published.
InitWork ==
  /\ now = 0
  /\ travaux = {}
  /\ nextTravailId = 1
  /\ nextAffectationId = 1
  /\ nextGroupeId = 1
  /\ affectations = {}
  /\ groupes = {}
  /\ membres = {}
  /\ livraisons = {}
  /\ nextLivraisonId = 1
  /\ evaluations = {}
  /\ nextEvaluationId = 1
  /\ resp = NoResp
  /\ inflight = [s \in {1, 2} |-> Idle]

\* the director, the instructor and a student
WorkUsers == {c \in Comptes : c.userId <= 3}

NextWork ==
  \/ \E user \in WorkUsers, body \in WorkBodies : createWork(user, body)
  \/ \E user \in WorkUsers, id \in 1..MaxTravaux, body \in WorkBodies :
       updateWork(user, id, body)

SpecWork == InitWork /\ [][NextWork]_vars

\* ------------------------------------------------------ bulk assignment
\* the student profiles of the directory
Etudiants ==
  {etudiantOf(c.userId) : c \in {x \in Comptes : x.role = "ETUDIANT"}}

\* unique (travailId, etudiantId) on affectationIndividuelle, the constraint
\* the "Ignorer les doublons" of the handler counts on
affectationUniqueViolation(rows, travailId, etudiantId) ==
  \E a \in rows : a.travailId = travailId /\ a.etudiantId = etudiantId

\* the Prisma error of one affectationIndividuelle.create: P2003 for an
\* etudiantId that is no student, P2002 for a duplicate
affectationCreateError(rows, travailId, etudiantId) ==
  IF etudiantId \notin Etudiants THEN "P2003"
  ELSE IF affectationUniqueViolation(rows, travailId, etudiantId) THEN "P2002"
  ELSE "none"

\* .catch(() => null): the rejection of a create, whatever its error,
\* becomes null
caughtAsNull(error) == error # "none"

\* the rows once every create of etudiantIds.map(...) has run, each on
\* its own
RECURSIVE createAffectations(_, _, _, _)
createAffectations(rows, nextId, travailId, ids) ==
  IF ids = <<>> THEN rows
  ELSE IF caughtAsNull(affectationCreateError(rows, travailId, Head(ids)))
       THEN createAffectations(rows, nextId, travailId, Tail(ids))
       ELSE createAffectations(
              rows \cup {[id |-> nextId, travailId |-> travailId,
                          etudiantId |-> Head(ids), estSupprime |-> FALSE]},
              nextId + 1, travailId, Tail(ids))

\* travail.typeTravail !== 'INDIVIDUEL'
notIndividuel(travail) == travail.typeTravail # "INDIVIDUEL"

\* POST /works/:id/assign-individual, every check before the creates
assignCheck(user, id, body) ==
  IF ~authorizeRoles({"FORMATEUR", "DIRECTEUR"}, user) THEN "Forbidden"
  ELSE IF ~body.isArray THEN "MissingField"
  ELSE IF Find(travaux, id) = {} THEN "NotFound"
  ELSE IF notIndividuel(travailOf(id)) THEN "WrongWorkType"
  ELSE "pass"

\* prisma.$transaction([...]) handed what .catch returned: plain promises
\* of creates that have already started, not Prisma Client promises.  The
\* client either awaits them as they are or rejects an array whose
\* elements are not Prisma Client promises; an empty array has none.
transactionOfCaught(ids) ==
  IF ids = <<>> THEN {"resolved"} ELSE {"resolved", "rejected"}

\* POST /works/:id/assign-individual as one step
assignIndividually(user, id, body) ==
  LET check == assignCheck(user, id, body)
  IN /\ IF check # "pass"
        THEN /\ UNCHANGED <<affectations, nextAffectationId>>
             /\ resp' = [op |-> "assignIndividually", by |-> user.userId,
                         kind |-> check, id |-> id, count |-> 0]
        ELSE \E outcome \in transactionOfCaught(body.etudiantIds) :
               LET rows == createAffectations(affectations, nextAffectationId,
                                              id, body.etudiantIds)
                   created == Cardinality(rows) - Cardinality(affectations)
               IN /\ nextAffectationId + created - 1 <= MaxAffectations
                  /\ affectations' = rows
                  /\ nextAffectationId' = nextAffectationId + created
                  /\ resp' = [op |-> "assignIndividually",
                              by |-> user.userId,
                              kind |-> IF outcome = "resolved" THEN "Ok"
                                       ELSE errorHandler("none"),
                              id |-> id,
                              count |-> IF outcome = "resolved" THEN created
                                        ELSE 0]
     /\ UNCHANGED <<now, travaux, groupes, membres, nextTravailId,
                    nextGroupeId, tracker, ledger, inflight>>

\* lists of at most two ids over the students and an id that is no
\* student's
IdLists ==
  {<<>>} \cup {<<a>> : a \in 1..4} \cup {<<a, b>> : a \in 1..4, b \in 1..4}

\* isArray = FALSE is a body whose etudiantIds is absent or no array
AssignBodies ==
  {[isArray |-> FALSE, etudiantIds |-> <<>>]}
    \cup [isArray : {TRUE}, etudiantIds : IdLists]

\* An individual work and a collective one, as the seed creates them,
\* before any assignment.
InitAssign ==
  /\ now = 0
  /\ travaux = {[id |-> 1, typeTravail |-> "INDIVIDUEL",
                 modeGroupe |-> "NON_APPLICABLE", dateDebut |-> 0,
                 dateFin |-> 1],
                [id |-> 2, typeTravail |-> "COLLECTIF",
                 modeGroupe |-> "FORMATEUR", dateDebut |-> 0, dateFin |-> 1]}
  /\ nextTravailId = 3
  /\ affectations = {}
  /\ nextAffectationId = 1
  /\ groupes = {}
  /\ membres = {}
  /\ nextGroupeId = 1
  /\ livraisons = {}
  /\ nextLivraisonId = 1
  /\ evaluations = {}
  /\ nextEvaluationId = 1
  /\ resp = NoResp
  /\ inflight = [s \in {1, 2} |-> Idle]

NextAssign ==
  \E user \in WorkUsers, id \in 1..3, body \in AssignBodies :
    assignIndividually(user, id, body)

SpecAssign == InitAssign /\ [][NextAssign]_vars

\* ----------------------------------------------------------------- groups
\* the group tables, as a transaction finds them and leaves them
groupStore == [groupes |-> groupes, membres |-> membres]

\* a transaction that keeps the writes made before its callback threw
transaction_noRollback(before, after, error) == after

\* prisma.$transaction(async (tx) => {...}): the writes of a callback that
\* threw are rolled back
transaction(before, after, error) ==
  IF error = "none" THEN after ELSE before

\* unique (groupeId, etudiantId) on membreGroupe, for the creates of one
\* list into a group that has no member
membreUniqueViolation(ids) ==
  \E i, j \in DOMAIN ids : i # j /\ ids[i] = ids[j]

\* the Prisma error of Promise.all(membresIds.map(tx.membreGroupe.create)):
\* P2003 for an etudiantId that is no student, P2002 for a duplicate
membresCreateError(ids) ==
  IF \E i \in DOMAIN ids : ids[i] \notin Etudiants THEN "P2003"
  ELSE IF membreUniqueViolation(ids) THEN "P2002"
  ELSE "none"

\* the memberships the creates of a list write, those that fail aside
membresWritten(groupeId, ids) ==
  {[groupeId |-> groupeId, etudiantId |-> ids[i]] :
     i \in {k \in DOMAIN ids : ids[k] \in Etudiants}}

\* createGroup without its work-type check
notCollectif_never(travail) == FALSE

\* travail.typeTravail !== 'COLLECTIF'
notCollectif(travail) == travail.typeTravail # "COLLECTIF"

\* a student may form groups whatever the work's mode
studentMayForm_always(travail) == TRUE

\* travail.modeGroupe === 'ETUDIANT' (the handler refuses its negation)
studentMayForm(travail) == travail.modeGroupe = "ETUDIANT"

\* POST /works/:id/groups, every check before the transaction; the route
\* has no role gate
createGroupCheck(user, id, body) ==
  IF falsy(body.nomGroupe) \/ ~body.isArray THEN "MissingField"
  ELSE IF Find(travaux, id) = {} THEN "NotFound"
  ELSE IF notCollectif(travailOf(id)) THEN "WrongWorkType"
  ELSE IF user.role = "ETUDIANT" /\ ~studentMayForm(travailOf(id))
       THEN "Forbidden"
  ELSE "pass"

\* let modeFormation: set for a FORMATEUR and for an ETUDIANT, left
\* undefined for any other role
modeFormationOf(user) ==
  IF user.role = "FORMATEUR" THEN "FORMATEUR"
  ELSE IF user.role = "ETUDIANT" THEN "ETUDIANT"
  ELSE "UNDEF"

\* tx.groupeEtudiant.create with modeFormation undefined: Prisma leaves the
\* field out of the insert, which stores the row without a mode where the
\* column admits it and is refused where the column requires a value
groupeCreateAccepted(modeFormation) ==
  IF modeFormation = "UNDEF" THEN {TRUE, FALSE} ELSE {TRUE}

\* tx.groupeEtudiant.create({data: {travailId, nomGroupe, modeFormation,
\* createurId}}); createurId is formateur?.id for a FORMATEUR, null otherwise
newGroupe(user, id, body) ==
  [id |-> nextGroupeId,
   travailId |-> id,
   nomGroupe |-> body.nomGroupe,
   modeFormation |-> nullIfUndef(modeFormationOf(user)),
   createurId |-> IF user.role = "FORMATEUR" THEN formateurOf(user.userId)
                  ELSE 0]

\* the error the transaction of createGroup ends with
createGroupError(user, body, accepted) ==
  IF ~accepted THEN "validation" ELSE membresCreateError(body.membresIds)

\* the answer of POST /works/:id/groups
createGroupResponse(user, id, body, accepted) ==
  IF createGroupCheck(user, id, body) # "pass"
  THEN createGroupCheck(user, id, body)
  ELSE IF createGroupError(user, body, accepted) # "none"
  THEN errorHandler(createGroupError(user, body, accepted))
  ELSE "Created"

\* the group tables after POST /works/:id/groups
createGroupStore(user, id, body, accepted) ==
  IF createGroupCheck(user, id, body) # "pass" THEN groupStore
  ELSE transaction(
         groupStore,
         [groupes |-> IF accepted
                      THEN groupes \cup {newGroupe(user, id, body)}
                      ELSE groupes,
          membres |-> IF accepted
                      THEN membres \cup
                             membresWritten(nextGroupeId, body.membresIds)
                      ELSE membres],
         createGroupError(user, body, accepted))

\* POST /works/:id/groups as one step
createGroup(user, id, body) ==
  \E accepted \in groupeCreateAccepted(modeFormationOf(user)) :
    LET outcome == createGroupResponse(user, id, body, accepted)
        after == createGroupStore(user, id, body, accepted)
    IN /\ outcome = "Created" => nextGroupeId <= MaxGroupes
       /\ groupes' = after.groupes
       /\ membres' = after.membres
       /\ nextGroupeId' = IF outcome = "Created" THEN nextGroupeId + 1
                          ELSE nextGroupeId
       /\ resp' = [op |-> "createGroup", by |-> user.userId, kind |-> outcome,
                   id |-> IF outcome = "Created" THEN nextGroupeId ELSE 0]
       /\ UNCHANGED <<now, travaux, affectations, nextTravailId,
                      nextAffectationId, tracker, ledger, inflight>>

\* the error the transaction of updateGroup ends with: P2025 when the
\* group is gone, else that of the creates when membresIds is an array
updateGroupError(groupeId, body) ==
  IF Find(groupes, groupeId) = {} THEN "P2025"
  ELSE IF body.isArray THEN membresCreateError(body.membresIds)
  ELSE "none"

\* the answer of PUT /works/groups/:groupeId
updateGroupResponse(user, groupeId, body) ==
  IF ~authorizeRoles({"FORMATEUR", "DIRECTEUR"}, user) THEN "Forbidden"
  ELSE IF updateGroupError(groupeId, body) # "none"
  THEN errorHandler(updateGroupError(groupeId, body))
  ELSE "Ok"

\* a replacement that creates the new memberships without deleting the old
replacedMembres_added(groupeId, body) ==
  IF body.isArray THEN membres \cup membresWritten(groupeId, body.membresIds)
  ELSE membres

\* if (membresIds && Array.isArray(membresIds)): deleteMany({groupeId}),
\* then a create for each id
replacedMembres(groupeId, body) ==
  IF body.isArray
  THEN {m \in membres : m.groupeId # groupeId}
         \cup membresWritten(groupeId, body.membresIds)
  ELSE membres

\* the group tables after PUT /works/groups/:groupeId
updateGroupStore(user, groupeId, body) ==
  IF ~authorizeRoles({"FORMATEUR", "DIRECTEUR"}, user) THEN groupStore
  ELSE transaction(
         groupStore,
         [groupes |-> {IF g.id = groupeId
                       THEN [g EXCEPT !.nomGroupe =
                               IF falsy(body.nomGroupe) THEN @
                               ELSE body.nomGroupe]
                       ELSE g : g \in groupes},
          membres |-> replacedMembres(groupeId, body)],
         updateGroupError(groupeId, body))

\* PUT /works/groups/:groupeId as one step
updateGroup(user, groupeId, body) ==
  /\ groupes' = updateGroupStore(user, groupeId, body).groupes
  /\ membres' = updateGroupStore(user, groupeId, body).membres
  /\ resp' = [op |-> "updateGroup", by |-> user.userId,
              kind |-> updateGroupResponse(user, groupeId, body),
              id |-> groupeId]
  /\ UNCHANGED <<now, travaux, affectations, nextTravailId,
                 nextAffectationId, nextGroupeId, tracker, ledger, inflight>>

\* isArray = FALSE is a body whose membresIds is absent or no array
\* member lists: students, a student twice, an id that is no student's
MemberLists == {<<1>>, <<2>>, <<1, 2>>, <<1, 1>>, <<1, 4>>}

GroupBodies ==
  {[nomGroupe |-> "UNDEF", isArray |-> TRUE, membresIds |-> <<1>>],
   [nomGroupe |-> "g", isArray |-> FALSE, membresIds |-> <<>>]}
    \cup [nomGroupe : {"g"}, isArray : {TRUE}, membresIds : MemberLists]

RenameBodies ==
  [nomGroupe : {"UNDEF", "h"}, isArray : {FALSE}, membresIds : {<<>>}]
    \cup [nomGroupe : {"UNDEF", "h"}, isArray : {TRUE},
          membresIds : MemberLists]

\* the instructor and a student
GroupUsers == {c \in Comptes : c.userId \in {2, 3}}

\* a work update that changes the distribution type alone
TypeChanges ==
  {b \in WorkBodies : /\ b.modeGroupe = "UNDEF"
                      /\ absentDate(b.dateDebut) /\ absentDate(b.dateFin)}

\* One work of the seed's kinds, before any assignment or group.
InitGroups ==
  /\ now = 0
  /\ \E kind \in {<<"INDIVIDUEL", "NON_APPLICABLE">>,
                  <<"COLLECTIF", "FORMATEUR">>, <<"COLLECTIF", "ETUDIANT">>} :
       travaux = {[id |-> 1, typeTravail |-> kind[1], modeGroupe |-> kind[2],
                   dateDebut |-> 0, dateFin |-> 1]}
  /\ nextTravailId = 2
  /\ affectations = {}
  /\ nextAffectationId = 1
  /\ groupes = {}
  /\ membres = {}
  /\ nextGroupeId = 1
  /\ livraisons = {}
  /\ nextLivraisonId = 1
  /\ evaluations = {}
  /\ nextEvaluationId = 1
  /\ resp = NoResp
  /\ inflight = [s \in {1, 2} |-> Idle]

NextGroups ==
  \/ \E user \in GroupUsers, body \in GroupBodies : createGroup(user, 1, body)
  \/ \E user \in {c \in Comptes : c.role = "DIRECTEUR"} :
       createGroup(user, 1, [nomGroupe |-> "g", isArray |-> TRUE,
                             membresIds |-> <<1, 2>>])
  \/ \E user \in GroupUsers, groupeId \in 1..MaxGroupes, body \in RenameBodies :
       updateGroup(user, groupeId, body)
  \/ \E user \in {c \in Comptes : c.role = "FORMATEUR"} :
       assignIndividually(user, 1, [isArray |-> TRUE, etudiantIds |-> <<1>>])
  \/ \E user \in {c \in Comptes : c.role = "FORMATEUR"}, body \in TypeChanges :
       updateWork(user, 1, body)

SpecGroups == InitGroups /\ [][NextGroups]_vars

\* ------------------------------------------------- interleaved requests
\* Two requests in flight.  A handler gives the event loop away at every
\* await: Begin runs it up to the read its decision rests on (the
\* livraison with its evaluations, the owner's existing livraison) and
\* keeps what was read; End decides on that and runs the write.
Slots == {1, 2}

done(op, user, body, id, kind) ==
  [pc |-> "done", op |-> op, user |-> user, body |-> body, id |-> id,
   kind |-> kind]

gradeBegin(s, user, body) ==
  /\ inflight[s].pc = "idle"
  /\ IF gradeCheck(user, body) # "pass"
     THEN /\ inflight' = [inflight EXCEPT ![s] =
                done("grade", user, body, body.livraisonId,
                     gradeCheck(user, body))]
          /\ resp' = [op |-> "grade", by |-> user.userId,
                      kind |-> gradeCheck(user, body), id |-> body.livraisonId]
     ELSE /\ inflight' = [inflight EXCEPT ![s] =
                [pc |-> "read", op |-> "grade", user |-> user, body |-> body,
                 id |-> body.livraisonId, snap |-> gradeRead(body)]]
          /\ resp' = NoResp
  /\ UNCHANGED <<now, directory, tracker, ledger>>

gradeEnd(s) ==
  /\ inflight[s].pc = "read" /\ inflight[s].op = "grade"
  /\ LET r == inflight[s]
         outcome == gradeOutcome(r.body, gradeDecide(r.user, r.snap))
     IN /\ gradeCommit(r.user, r.body, outcome)
        /\ inflight' = [inflight EXCEPT ![s] =
              done("grade", r.user, r.body, r.id, outcome)]
        /\ resp' = [op |-> "grade", by |-> r.user.userId, kind |-> outcome,
                    id |-> r.id]
  /\ UNCHANGED <<now, directory, tracker>>

\* op is submitIndividual or submitGroup, id the assignment or the group
submitCheck(op, user, id, body) ==
  IF op = "submitIndividual" THEN submitIndividualCheck(user, id, body)
  ELSE submitGroupCheck(user, id, body)

submitBegin(s, op, user, id, body) ==
  /\ inflight[s].pc = "idle"
  /\ IF submitCheck(op, user, id, body) # "pass"
     THEN /\ inflight' = [inflight EXCEPT ![s] =
                done(op, user, body, id, submitCheck(op, user, id, body))]
          /\ resp' = [op |-> op, by |-> user.userId,
                      kind |-> submitCheck(op, user, id, body), id |-> id]
     ELSE /\ \E existingId \in
                 findFirstId(IF op = "submitIndividual"
                             THEN livraisonsOfAffectation(id)
                             ELSE livraisonsOfGroupe(id)) :
               inflight' = [inflight EXCEPT ![s] =
                 [pc |-> "read", op |-> op, user |-> user, body |-> body,
                  id |-> id,
                  snap |-> [existingId |-> existingId,
                            statut |-> statutAt(
                              IF op = "submitIndividual"
                              THEN travailOfAffectation(id)
                              ELSE travailOfGroupe(id), now)]]]
          /\ resp' = NoResp
  /\ UNCHANGED <<now, directory, tracker, ledger>>

submitEnd(s) ==
  /\ inflight[s].pc = "read" /\ inflight[s].op \in {"submitIndividual",
                                                    "submitGroup"}
  /\ LET r == inflight[s]
         outcome == submitOutcome(r.snap.existingId)
     IN /\ submitCommit(IF r.op = "submitIndividual" THEN r.id ELSE 0,
                        IF r.op = "submitGroup" THEN r.id ELSE 0,
                        r.body, r.snap.statut, r.snap.existingId, outcome)
        /\ inflight' = [inflight EXCEPT ![s] =
              done(r.op, r.user, r.body, r.id, outcome)]
        /\ resp' = [op |-> r.op, by |-> r.user.userId, kind |-> outcome,
                    id |-> r.id]
  /\ UNCHANGED <<now, directory, ledger>>

RaceGrades ==
  [livraisonId : {1},
   note : {[given |-> TRUE, num |-> 0, clean |-> TRUE],
           [given |-> TRUE, num |-> 20, clean |-> TRUE]},
   commentaire : {"UNDEF"}]

RaceSubmits == [contenu : {"a", "b"}, fichierUrl : {"UNDEF", "u"},
                statut : {"UNDEF"}]

\* The seeded states of Init with the window open from the start.
InitRace ==
  /\ Init
  /\ \A t \in travaux : t.dateDebut = 0

NextRace ==
  \/ \E s \in Slots, user \in {c \in Comptes : c.role # "ETUDIANT"},
        body \in RaceGrades : gradeBegin(s, user, body)
  \/ \E s \in Slots : gradeEnd(s)
  \/ \E s \in Slots, op \in {"submitIndividual", "submitGroup"},
        user \in {c \in Comptes : c.role = "ETUDIANT"}, body \in RaceSubmits :
       submitBegin(s, op, user, 1, body)
  \/ \E s \in Slots : submitEnd(s)
  \/ Tick

SpecRace == InitRace /\ [][NextRace]_vars

\* ------------------------------- amend and withdraw beside a grade
\* prisma.livraison.delete on a row that may have got an evaluation since
\* the handler read it.  What the store does with the evaluation is the
\* referential action of evaluation.livraison: the evaluation, owned by its
\* livraison, goes with it, or the delete is refused (P2003).  A row that
\* is gone is P2025.
livraisonDeleteOutcomes(id) ==
  IF Find(livraisons, id) = {} THEN {"P2025"}
  ELSE IF evaluationsOf(id) # {} THEN {"Cascade", "P2003"}
  ELSE {"Deleted"}

\* the answer of amend and withdraw once their write has run
mutationOutcome(code) ==
  IF code \in {"P2025", "P2003"} THEN errorHandler(code) ELSE "Ok"

\* the checks of amend and withdraw, up to the read of the livraison with
\* its evaluations
mutationBegin(s, op, user, id, body) ==
  /\ inflight[s].pc = "idle"
  /\ IF mutationCheck(user, id) # "Ok"
     THEN /\ inflight' = [inflight EXCEPT ![s] =
                done(op, user, body, id, mutationCheck(user, id))]
          /\ resp' = [op |-> op, by |-> user.userId,
                      kind |-> mutationCheck(user, id), id |-> id]
     ELSE /\ inflight' = [inflight EXCEPT ![s] =
                [pc |-> "read", op |-> op, user |-> user, body |-> body,
                 id |-> id, snap |-> [evaluated |-> alreadyEvaluated(id)]]]
          /\ resp' = NoResp
  /\ UNCHANGED <<now, directory, tracker, ledger>>

\* prisma.livraison.update of amend, on the tables as they are now
amendEnd(s) ==
  /\ inflight[s].pc = "read" /\ inflight[s].op = "amend"
  /\ LET r == inflight[s]
         code == IF Find(livraisons, r.id) = {} THEN "P2025" ELSE "Updated"
     IN /\ IF code = "Updated"
           THEN livraisons' = {IF l.id = r.id THEN amended(l, r.body) ELSE l
                                 : l \in livraisons}
           ELSE UNCHANGED livraisons
        /\ inflight' = [inflight EXCEPT ![s] =
              done(r.op, r.user, r.body, r.id, mutationOutcome(code))]
        /\ resp' = [op |-> r.op, by |-> r.user.userId,
                    kind |-> mutationOutcome(code), id |-> r.id]
  /\ UNCHANGED <<now, directory, nextLivraisonId, ledger>>

\* prisma.livraison.delete of withdraw, on the tables as they are now
withdrawEnd(s) ==
  /\ inflight[s].pc = "read" /\ inflight[s].op = "withdraw"
  /\ LET r == inflight[s]
     IN \E code \in livraisonDeleteOutcomes(r.id) :
          /\ livraisons' = IF code \in {"Deleted", "Cascade"}
                           THEN {l \in livraisons : l.id # r.id}
                           ELSE livraisons
          /\ evaluations' = IF code = "Cascade"
                            THEN {e \in evaluations : e.livraisonId # r.id}
                            ELSE evaluations
          /\ inflight' = [inflight EXCEPT ![s] =
                done(r.op, r.user, r.body, r.id, mutationOutcome(code))]
          /\ resp' = [op |-> r.op, by |-> r.user.userId,
                      kind |-> mutationOutcome(code), id |-> r.id]
  /\ UNCHANGED <<now, directory, nextLivraisonId, nextEvaluationId>>

MutationBodies == [contenu : {"UNDEF", "b"}, fichierUrl : {"UNDEF", "v"}]

NoBody == [contenu |-> "UNDEF", fichierUrl |-> "UNDEF"]

\* The seeded individual work with its livraison, the window open.
InitMutationRace ==
  /\ InitRace
  /\ livraisons # {}

NextMutationRace ==
  \/ \E s \in Slots, user \in {c \in Comptes : c.role # "ETUDIANT"},
        body \in RaceGrades : gradeBegin(s, user, body)
  \/ \E s \in Slots : gradeEnd(s)
  \/ \E s \in Slots, user \in {c \in Comptes : c.userId \in {3, 4}},
        body \in MutationBodies : mutationBegin(s, "amend", user, 1, body)
  \/ \E s \in Slots, user \in {c \in Comptes : c.userId \in {3, 4}} :
       mutationBegin(s, "withdraw", user, 1, NoBody)
  \/ \E s \in Slots : amendEnd(s)
  \/ \E s \in Slots : withdrawEnd(s)
  \/ Tick

SpecMutationRace == InitMutationRace /\ [][NextMutationRace]_vars

\* ------------------------------------------------- listing of a work
\* a listing that reads the assignments whatever the type of the work
listOwners_affectations(travail) ==
  {a \in affectations : a.travailId = travail.id /\ ~a.estSupprime}

\* GET /submissions/work/:travailId: the rows the listing maps over,
\* travail.affectations (where estSupprime is false) for an individual
\* work and travail.groupes otherwise
listOwners(travail) ==
  IF travail.typeTravail = "INDIVIDUEL"
  THEN {a \in affectations : a.travailId = travail.id /\ ~a.estSupprime}
  ELSE {g \in groupes : g.travailId = travail.id}

ownerLivraisons(travail, owner) ==
  IF travail.typeTravail = "INDIVIDUEL"
  THEN livraisonsOfAffectation(owner.id)
  ELSE livraisonsOfGroupe(owner.id)

\* the entries the map can give an owner: livraisons[0] || null and
\* livraisons[0]?.evaluations[0] || null, the relations being unordered
ownerEntries(travail, owner) ==
  LET rows == ownerLivraisons(travail, owner)
  IN IF rows = {}
     THEN {[ownerId |-> owner.id, livraisonId |-> 0, evaluationId |-> 0,
            statut |-> "NULL"]}
     ELSE UNION {{[ownerId |-> owner.id, livraisonId |-> l.id,
                   evaluationId |-> eid, statut |-> l.statut]
                    : eid \in findFirstId(evaluationsOf(l.id))} : l \in rows}

\* the lists the handler can build: one entry for each owner
listings(travail) ==
  LET owners == listOwners(travail)
  IN {es \in SUBSET (UNION {ownerEntries(travail, o) : o \in owners}) :
        \A o \in owners : Cardinality({e \in es : e.ownerId = o.id}) = 1}

\* stats: length of the list and of its three filters
statsOf(entries) ==
  [total |-> Cardinality(entries),
   soumises |-> Cardinality({e \in entries : e.livraisonId # 0}),
   evaluees |-> Cardinality({e \in entries : e.evaluationId # 0}),
   enRetard |-> Cardinality({e \in entries : e.statut = "EN_RETARD"})]

listForWorkCheck(user, travailId) ==
  IF ~authorizeRoles({"FORMATEUR", "DIRECTEUR"}, user) THEN "Forbidden"
  ELSE IF Find(travaux, travailId) = {} THEN "NotFound"
  ELSE "Ok"

listForWork(user, travailId) ==
  LET check == listForWorkCheck(user, travailId)
  IN /\ IF check # "Ok"
        THEN resp' = [op |-> "listForWork", by |-> user.userId,
                      kind |-> check, id |-> travailId]
        ELSE \E entries \in listings(travailOf(travailId)) :
               resp' = [op |-> "listForWork", by |-> user.userId,
                        kind |-> check, id |-> travailId,
                        livraisons |-> entries, stats |-> statsOf(entries)]
     /\ UNCHANGED <<now, directory, tracker, ledger, inflight>>

\* One work with two owners: assignments 1 and 2 of students 1 and 3 for an
\* individual work, groups 1 (students 1 and 2) and 2 (student 3) for a
\* collective one.
InitList ==
  /\ now = 0
  /\ \E type \in {"INDIVIDUEL", "COLLECTIF"} :
       /\ travaux = {[id |-> 1, typeTravail |-> type,
                      modeGroupe |-> IF type = "INDIVIDUEL"
                                     THEN "NON_APPLICABLE" ELSE "FORMATEUR",
                      dateDebut |-> 0, dateFin |-> 1]}
       /\ affectations = IF type = "INDIVIDUEL"
                         THEN {[id |-> 1, travailId |-> 1, etudiantId |-> 1,
                                estSupprime |-> FALSE],
                               [id |-> 2, travailId |-> 1, etudiantId |-> 3,
                                estSupprime |-> FALSE]}
                         ELSE {}
       /\ groupes = IF type = "COLLECTIF"
                    THEN {[id |-> 1, travailId |-> 1, nomGroupe |-> "g",
                           modeFormation |-> "FORMATEUR", createurId |-> 1],
                          [id |-> 2, travailId |-> 1, nomGroupe |-> "h",
                           modeFormation |-> "FORMATEUR", createurId |-> 1]}
                    ELSE {}
       /\ membres = IF type = "COLLECTIF"
                    THEN {[groupeId |-> 1, etudiantId |-> 1],
                          [groupeId |-> 1, etudiantId |-> 2],
                          [groupeId |-> 2, etudiantId |-> 3]}
                    ELSE {}
  /\ livraisons = {}
  /\ nextLivraisonId = 1
  /\ nextTravailId = 2
  /\ nextAffectationId = 3
  /\ nextGroupeId = 3
  /\ evaluations = {}
  /\ nextEvaluationId = 1
  /\ resp = NoResp
  /\ inflight = [s \in {1, 2} |-> Idle]

ListBodies == {[contenu |-> "a", fichierUrl |-> "UNDEF", statut |-> "UNDEF"]}

ListUsers == {c \in Comptes : c.userId \in {2, 3, 5}}

NextList ==
  \/ \E user \in ListUsers, affectationId \in 1..2, body \in ListBodies :
       submitIndividual(user, affectationId, body)
  \/ \E user \in ListUsers, groupeId \in 1..2, body \in ListBodies :
       submitGroup(user, groupeId, body)
  \/ \E user \in {c \in Comptes : c.role = "FORMATEUR"}, body \in PlainGrades :
       grade(user, body)
  \/ \E user \in ListUsers, travailId \in 1..2 : listForWork(user, travailId)
  \/ Tick

SpecList == InitList /\ [][NextList]_vars

\* ================================================================ claims
roleOf(userId) == (CHOOSE c \in Comptes : c.userId = userId).role

SubmitOps == {"submitIndividual", "submitGroup"}

TrackerOps == {"submitIndividual", "submitGroup", "amend", "withdraw"}

\* the work of the owner a submit response is about (none when the owner
\* does not exist)
respTravaux(r) ==
  IF r.op = "submitIndividual"
  THEN {travailOf(a.travailId) : a \in Find(affectations, r.id)}
  ELSE IF r.op = "submitGroup"
  THEN {travailOf(g.travailId) : g \in Find(groupes, r.id)}
  ELSE {}

\* among rows, the livraisons of the owner a submit response is about
respLivraisons(rows, r) ==
  IF r.op = "submitIndividual"
  THEN {l \in rows : l.affectationId = r.id}
  ELSE IF r.op = "submitGroup"
  THEN {l \in rows : l.groupeId = r.id}
  ELSE {}

\* a grade request that passes the role gate and the body validation
WellFormedGrade(user, body) ==
  /\ user.role \in {"FORMATEUR", "DIRECTEUR"}
  /\ body.livraisonId >= 1
  /\ body.note.given /\ body.note.clean
  /\ body.note.num >= 0 /\ body.note.num <= 20

\* a grade step on a livraison that has an evaluation
C1_LaterGradeRefused ==
  resp'.op = "grade" /\ evaluationsOf(resp'.id) # {}
    => /\ evaluations' = evaluations
       /\ resp'.kind \in {"AlreadyGraded", "Forbidden", "MissingField",
                          "OutOfRange"}

\* the answer to a well-formed grade request on such a livraison
C1_WellFormedRefused ==
  \A user \in Comptes, body \in GradeBodies :
    WellFormedGrade(user, body) /\ evaluationsOf(body.livraisonId) # {}
      => gradeResponse(user, body) = "AlreadyGraded"

\* C1: after any sequence of grade and override calls every livraison has
\* at most one evaluation; a grade call on a livraison that already has
\* one creates nothing, leaves every evaluation as it was and is refused,
\* with AlreadyGraded whenever the call passes the role gate and the body
\* validation (the checks the handler makes before it reads the store).
C1_SingleShot ==
  /\ [](\A id \in 1..MaxLivraisons : Cardinality(evaluationsOf(id)) <= 1)
  /\ []C1_WellFormedRefused
  /\ [][C1_LaterGradeRefused]_vars

C1_Witness ==
  /\ resp.op = "grade" /\ resp.kind = "AlreadyGraded"
  /\ Cardinality(evaluationsOf(resp.id)) = 1

\* C3: once a livraison has an evaluation, no step of submitIndividual,
\* submitGroup, amend or withdraw changes or deletes it.
C3_GradedImmutable ==
  [][resp'.op \in TrackerOps
       => \A l \in livraisons : evaluationsOf(l.id) # {} => l \in livraisons']_vars

\* C4 as stated: amend and withdraw on a livraison that has an evaluation
\* fail with AlreadyEvaluated for every principal and leave it unchanged.
C4_AlwaysAlreadyEvaluated ==
  [][resp'.op \in {"amend", "withdraw"} /\ evaluationsOf(resp'.id) # {}
       => resp'.kind = "AlreadyEvaluated" /\ livraisons' = livraisons]_vars

\* C4 amended: amend and withdraw on a livraison that has an evaluation
\* always fail and leave every livraison unchanged; the failure is
\* AlreadyEvaluated for a student who owns the livraison (the assignment's
\* student or a member of the group) and Forbidden for any other principal.
C4_EvaluatedRefused ==
  [][resp'.op \in {"amend", "withdraw"} /\ evaluationsOf(resp'.id) # {}
       => /\ livraisons' = livraisons
          /\ resp'.kind =
               IF /\ roleOf(resp'.by) = "ETUDIANT"
                  /\ \E l \in Find(livraisons, resp'.id) : hasAccess(l, resp'.by)
               THEN "AlreadyEvaluated" ELSE "Forbidden"]_vars

C4_Witness ==
  /\ resp.op \in {"amend", "withdraw"} /\ resp.kind = "AlreadyEvaluated"
  /\ evaluationsOf(resp.id) # {} /\ Find(livraisons, resp.id) # {}

\* C5: after every successful submitIndividual or submitGroup made at time
\* now, whatever the body says, the owner's livraison is EN_RETARD exactly
\* when now is after the work's dateFin and LIVRE exactly when now lies in
\* [dateDebut, dateFin].
C5_StatusFromWindow ==
  [][resp'.op \in SubmitOps /\ resp'.kind = "Submitted"
       => /\ respLivraisons(livraisons', resp') # {}
          /\ \A t \in respTravaux(resp'), l \in respLivraisons(livraisons', resp') :
               /\ l.statut = "EN_RETARD" <=> now > t.dateFin
               /\ l.statut = "LIVRE" <=> (t.dateDebut <= now /\ now <= t.dateFin)]_vars

C5_Witness ==
  /\ resp.op \in SubmitOps /\ resp.kind = "Submitted"
  /\ \E l \in respLivraisons(livraisons, resp) : l.statut = "EN_RETARD" /\ l.dateLivraison = now

\* a submit request by a student entitled to submit for the owner, with
\* something to submit
EntitledSubmit(user, body) ==
  /\ user.userId = 3
  /\ body.contenu # "UNDEF" \/ body.fichierUrl # "UNDEF"

\* a submit step before the window opens
C6_BeforeStart ==
  \A t \in respTravaux(resp') :
    resp'.op \in SubmitOps /\ now < t.dateDebut
      => /\ UNCHANGED tracker
         /\ resp'.kind \in {"NotStarted", "Forbidden", "MissingField"}

\* the answer to an entitled request before the window opens
C6_EntitledRefused ==
  \A user \in Comptes, body \in SubmitBodies :
    EntitledSubmit(user, body)
      => /\ \A a \in Find(affectations, 1) :
              now < travailOf(a.travailId).dateDebut
                => submitIndividualCheck(user, 1, body) = "NotStarted"
         /\ \A g \in Find(groupes, 1) :
              now < travailOf(g.travailId).dateDebut
                => submitGroupCheck(user, 1, body) = "NotStarted"

\* C6: a submitIndividual or submitGroup made before the work's dateDebut
\* creates no livraison and changes none, and is refused; a request that
\* is otherwise acceptable (the owner's student, a non-empty body) is
\* refused with NotStarted.
C6_NotStarted == []C6_EntitledRefused /\ [][C6_BeforeStart]_vars

C6_Witness ==
  /\ resp.op \in SubmitOps /\ resp.kind = "NotStarted"
  /\ respLivraisons(livraisons, resp) # {}

\* C7: after a successful submitIndividual or submitGroup the owner has
\* exactly one livraison, and it holds the content, the URL (NULL for a
\* field the request left out), the time and the status of that request.
C7_LastWriteWins ==
  [][\A user \in Comptes, body \in SubmitBodies :
       /\ submitIndividual(user, 1, body) \/ submitGroup(user, 1, body)
       /\ resp'.kind = "Submitted"
       => /\ Cardinality(respLivraisons(livraisons', resp')) = 1
          /\ \A l \in respLivraisons(livraisons', resp'), t \in respTravaux(resp') :
               /\ l.contenu = (IF body.contenu = "UNDEF" THEN "NULL"
                               ELSE body.contenu)
               /\ l.fichierUrl = (IF body.fichierUrl = "UNDEF" THEN "NULL"
                                  ELSE body.fichierUrl)
               /\ l.dateLivraison = now
               /\ l.statut = (IF now > t.dateFin THEN "EN_RETARD" ELSE "LIVRE")]_vars

\* C2 as stated: when two grade requests for the same livraison, which
\* each found it, have both been answered, however their reads and creates
\* interleaved, exactly one was answered Created and the other
\* AlreadyGraded, and the livraison has one evaluation.
C2_OneGradeWins ==
  (\A s \in Slots : /\ inflight[s].pc = "done" /\ inflight[s].op = "grade"
                    /\ inflight[s].kind # "NotFound")
    => /\ Cardinality(evaluationsOf(1)) = 1
       /\ \E s \in Slots :
            /\ inflight[s].kind = "Created"
            /\ \A o \in Slots \ {s} : inflight[o].kind = "AlreadyGraded"

\* C8 as stated: when two submit requests for the same owner have both
\* been answered, the owner has a single livraison, holding the content of
\* one of the two requests.
C8_SingleSubmission ==
  (\A s \in Slots : /\ inflight[s].pc = "done"
                    /\ inflight[s].op \in SubmitOps
                    /\ inflight[s].kind = "Submitted")
    => /\ Cardinality(livraisons) = 1
       /\ \A l \in livraisons :
            \E s \in Slots : l.contenu = inflight[s].body.contenu

\* the invariant of a work: individual work has no formation mode,
\* collective work has one
ModeMatchesType(t) ==
  /\ t.typeTravail = "INDIVIDUEL" => t.modeGroupe = "NON_APPLICABLE"
  /\ t.typeTravail = "COLLECTIF" => t.modeGroupe # "NON_APPLICABLE"

\* C9 as stated: after any sequence of createWork and updateWork, every
\* work's formation mode matches its distribution type.
C9_ModeMatchesType == \A t \in travaux : ModeMatchesType(t)

\* a createWork request of an instructor that carries its required fields
CompleteWork(user, body) ==
  /\ formateurOf(user.userId) # 0
  /\ body.typeTravail # "UNDEF" /\ body.dateDebut >= 0 /\ body.dateFin >= 0

\* the answers to complete createWork requests
C10_Responses ==
  \A user \in Comptes, body \in WorkBodies :
    CompleteWork(user, body)
      => /\ body.typeTravail = "COLLECTIF"
              /\ body.modeGroupe \in {"UNDEF", "NON_APPLICABLE"}
              => createWorkResponse(user, body) = "InvalidConfiguration"
         /\ body.typeTravail = "INDIVIDUEL"
              => createWorkResponse(user, body) = "Created"

\* what a createWork step stores
C10_Effects ==
  resp'.op = "createWork"
    => /\ resp'.kind # "Created" => travaux' = travaux
       /\ resp'.kind = "Created"
            => \E t \in travaux' :
                 /\ t.id = resp'.id /\ travaux' = travaux \cup {t}
                 /\ t \notin travaux
                 /\ ModeMatchesType(t)

\* C10: createWork for a collective work whose formation mode is absent
\* or NON_APPLICABLE is answered InvalidConfiguration and creates no work;
\* createWork for an individual work is accepted whatever mode it names
\* and the work it creates has modeGroupe NON_APPLICABLE.
C10_CreateWorkMode == []C10_Responses /\ [][C10_Effects]_vars

C10_Witness ==
  /\ resp.op = "createWork" /\ resp.kind = "InvalidConfiguration"
  /\ \E t \in travaux : t.typeTravail = "INDIVIDUEL"

\* the answers of the checks a request must pass before it writes
RefusedKinds == {"Forbidden", "MissingField", "NotFound", "WrongWorkType"}

\* C13 as stated: an assignIndividually call that passes its checks
\* answers with the count of the assignments it created, creates none for
\* an id already assigned, and keeps (work, student) unique.
C13_DuplicateTolerant ==
  [][resp'.op = "assignIndividually" /\ resp'.kind \notin RefusedKinds
       => /\ resp'.kind = "Ok"
          /\ resp'.count = Cardinality(affectations') - Cardinality(affectations)
          /\ affectations \subseteq affectations'
          /\ \A a, b \in affectations' :
               a.travailId = b.travailId /\ a.etudiantId = b.etudiantId
                 => a = b]_vars

\* C14 as stated: an assignIndividually call whose batch holds an id that
\* is no student's reports a failure and persists no assignment.
C14_OnlyDuplicatesSkipped ==
  [][\A user \in WorkUsers, body \in AssignBodies :
       /\ assignIndividually(user, 1, body)
       /\ assignCheck(user, 1, body) = "pass"
       /\ \E i \in DOMAIN body.etudiantIds : body.etudiantIds[i] \notin Etudiants
       => resp'.kind # "Ok" /\ affectations' = affectations]_vars

\* C11 as stated: a work that is individual has no group and a work that
\* is collective has no individual assignment, also after its type was
\* updated.
C11_TypeMatchesOwners ==
  \A t \in travaux :
    /\ t.typeTravail = "INDIVIDUEL" => ~\E g \in groupes : g.travailId = t.id
    /\ t.typeTravail = "COLLECTIF"
         => ~\E a \in affectations : a.travailId = t.id

\* the members a list names
Named(ids) == {ids[i] : i \in DOMAIN ids}

\* a list every create of which succeeds on a group without members
CleanList(ids) ==
  /\ Named(ids) \subseteq Etudiants
  /\ Cardinality(Named(ids)) = Len(ids)

\* the students of a group in a membership table
membersIn(rows, groupeId) == {m.etudiantId : m \in {x \in rows : x.groupeId = groupeId}}

\* the answers to requests on a work of the wrong type that pass the
\* checks made before the type is looked at
C12_Responses ==
  \A t \in Find(travaux, 1), user \in Comptes :
    /\ \A body \in AssignBodies :
         /\ user.role \in {"FORMATEUR", "DIRECTEUR"} /\ body.isArray
         /\ t.typeTravail # "INDIVIDUEL"
         => assignCheck(user, 1, body) = "WrongWorkType"
    /\ \A body \in GroupBodies, accepted \in BOOLEAN :
         /\ body.nomGroupe # "UNDEF" /\ body.isArray
         /\ t.typeTravail # "COLLECTIF"
         => createGroupResponse(user, 1, body, accepted) = "WrongWorkType"

\* what a step on a work of the wrong type stores
C12_Effects ==
  \A t \in Find(travaux, 1) :
    /\ resp'.op = "assignIndividually" /\ t.typeTravail # "INDIVIDUEL"
         => /\ affectations' = affectations
            /\ resp'.kind \in {"WrongWorkType", "Forbidden", "MissingField"}
    /\ resp'.op = "createGroup" /\ t.typeTravail # "COLLECTIF"
         => /\ groupes' = groupes /\ membres' = membres
            /\ resp'.kind \in {"WrongWorkType", "MissingField"}

\* C12: assignIndividually on a work that is not individual and
\* createGroup on a work that is not collective create nothing and are
\* refused, with WrongWorkType whenever the request passes the checks the
\* handler makes before it looks at the type.
C12_WrongWorkType == []C12_Responses /\ [][C12_Effects]_vars

C12_Witness ==
  /\ resp.op = "createGroup" /\ resp.kind = "WrongWorkType"
  /\ affectations # {} /\ groupes = {}

\* the answers to createGroup requests on a collective work, by role
C15_Responses ==
  \A t \in Find(travaux, 1), user \in Comptes, body \in GroupBodies :
    /\ t.typeTravail = "COLLECTIF"
    /\ body.nomGroupe # "UNDEF" /\ body.isArray
    => /\ user.role = "ETUDIANT" /\ t.modeGroupe # "ETUDIANT"
            => /\ createGroupResponse(user, 1, body, TRUE) = "Forbidden"
               /\ createGroupStore(user, 1, body, TRUE) = groupStore
       /\ (/\ user.role = "ETUDIANT" /\ t.modeGroupe = "ETUDIANT"
           /\ CleanList(body.membresIds))
            => createGroupResponse(user, 1, body, TRUE) = "Created"
       /\ user.role = "FORMATEUR" /\ CleanList(body.membresIds)
            => /\ createGroupResponse(user, 1, body, TRUE) = "Created"
               /\ \E g \in createGroupStore(user, 1, body, TRUE).groupes :
                    /\ g \notin groupes
                    /\ g.modeFormation = "FORMATEUR"
                    /\ g.createurId = formateurOf(user.userId)
                    /\ g.createurId # 0

\* what a createGroup step of a student or an instructor stores
C15_Effects ==
  \A t \in Find(travaux, 1) :
    resp'.op = "createGroup"
      => /\ /\ roleOf(resp'.by) = "ETUDIANT"
            /\ ~(t.typeTravail = "COLLECTIF" /\ t.modeGroupe = "ETUDIANT")
            => /\ groupes' = groupes /\ membres' = membres
               /\ resp'.kind # "Created"
         /\ roleOf(resp'.by) = "FORMATEUR" /\ resp'.kind = "Created"
            => \E g \in groupes' \ groupes :
                 /\ g.id = resp'.id /\ g.modeFormation = "FORMATEUR"
                 /\ g.createurId = formateurOf(resp'.by)

\* C15: on a collective work a student's createGroup succeeds only if the
\* work's modeGroupe is ETUDIANT, whether or not the student is among the
\* members, and is otherwise answered Forbidden, creating no group and no
\* membership; an instructor's createGroup succeeds and records
\* modeFormation FORMATEUR with the instructor as creator.
C15_GroupAuthorization == []C15_Responses /\ [][C15_Effects]_vars

C15_Witness ==
  /\ resp.op = "createGroup" /\ resp.kind = "Created"
  /\ roleOf(resp.by) = "ETUDIANT"
  /\ membersIn(membres, resp.id) # {}
  /\ etudiantOf(resp.by) \notin membersIn(membres, resp.id)

\* the outcomes of createGroup requests that reach the transaction
C16_Responses ==
  \A user \in Comptes, body \in GroupBodies, accepted \in BOOLEAN :
    createGroupCheck(user, 1, body) = "pass"
      => /\ ~CleanList(body.membresIds)
              => /\ createGroupResponse(user, 1, body, accepted) # "Created"
                 /\ createGroupStore(user, 1, body, accepted) = groupStore
         /\ createGroupResponse(user, 1, body, accepted) = "Created"
              => LET after == createGroupStore(user, 1, body, accepted)
                 IN /\ Cardinality(after.groupes \ groupes) = 1
                    /\ membersIn(after.membres, nextGroupeId)
                         = Named(body.membresIds)
                    /\ \A g \in groupes :
                         membersIn(after.membres, g.id)
                           = membersIn(membres, g.id)

\* what a createGroup step stores
C16_Effects ==
  resp'.op = "createGroup"
    => /\ resp'.kind # "Created" => groupes' = groupes /\ membres' = membres
       /\ resp'.kind = "Created"
            => /\ \E g \in groupes' : g.id = resp'.id /\ groupes' = groupes \cup {g}
               /\ \A m \in membres' \ membres : m.groupeId = resp'.id
               /\ membres \subseteq membres'

\* C16: if a membership of a createGroup request cannot be created (an id
\* that is no student's, a student listed twice) neither the group nor
\* any of its memberships exists afterwards; on success the group's
\* members are exactly the ids of the request.
C16_GroupAtomic == []C16_Responses /\ [][C16_Effects]_vars

C16_Witness ==
  /\ resp.op = "createGroup" /\ resp.kind = "DuplicateValue"
  /\ groupes = {} /\ membres = {}

\* the outcomes of updateGroup requests of an instructor or a director on
\* an existing group
C17_Responses ==
  \A user \in Comptes, g \in groupes, body \in RenameBodies :
    user.role \in {"FORMATEUR", "DIRECTEUR"}
      => LET after == updateGroupStore(user, g.id, body)
         IN /\ body.isArray /\ CleanList(body.membresIds)
                 => /\ updateGroupResponse(user, g.id, body) = "Ok"
                    /\ membersIn(after.membres, g.id) = Named(body.membresIds)
            /\ body.isArray /\ ~CleanList(body.membresIds)
                 => /\ updateGroupResponse(user, g.id, body) # "Ok"
                    /\ after = groupStore
            /\ ~body.isArray
                 => /\ updateGroupResponse(user, g.id, body) = "Ok"
                    /\ after.membres = membres
            /\ \A o \in groupes \ {g} :
                 membersIn(after.membres, o.id) = membersIn(membres, o.id)

\* what an updateGroup step that fails stores
C17_Effects ==
  resp'.op = "updateGroup" /\ resp'.kind # "Ok"
    => groupes' = groupes /\ membres' = membres

\* C17: updateGroup with membresIds replaces the membership, which is
\* afterwards exactly the ids of the request; if a membership cannot be
\* created the previous members and name stay; without membresIds the
\* membership is unchanged.
C17_MembershipReplaced == []C17_Responses /\ [][C17_Effects]_vars

C17_Witness ==
  /\ resp.op = "updateGroup" /\ resp.kind = "InvalidReference"
  /\ membersIn(membres, resp.id) = {1, 2}

\* the answers to submit requests with something to submit by a principal
\* who is not the owner's student or member
C18_Responses ==
  \A user \in Comptes, body \in SubmitBodies :
    body.contenu # "UNDEF" \/ body.fichierUrl # "UNDEF"
      => /\ \A a \in Find(affectations, 1) :
              compteOfEtudiant(a.etudiantId) # user.userId
                => submitIndividualCheck(user, 1, body) = "Forbidden"
         /\ \A g \in Find(groupes, 1) :
              (~\E m \in membres : /\ m.groupeId = g.id
                                   /\ compteOfEtudiant(m.etudiantId) = user.userId)
                => submitGroupCheck(user, 1, body) = "Forbidden"

\* the principal of a submit response owns what it submits for
respByOwner(r) ==
  \/ /\ r.op = "submitIndividual"
     /\ \E a \in Find(affectations, r.id) : compteOfEtudiant(a.etudiantId) = r.by
  \/ /\ r.op = "submitGroup"
     /\ \E m \in membres : /\ m.groupeId = r.id
                           /\ compteOfEtudiant(m.etudiantId) = r.by

\* what a submit step by such a principal stores
C18_Effects ==
  /\ resp'.op \in SubmitOps /\ respTravaux(resp') # {}
  /\ ~respByOwner(resp')
  => /\ UNCHANGED tracker
     /\ resp'.kind \in {"Forbidden", "MissingField"}

\* C18: submitIndividual by a principal who is not the assignment's
\* student and submitGroup by a principal who is not a member of the group
\* create no livraison and change none, and are refused, with Forbidden
\* whenever the request has something to submit.
C18_NotOwnerForbidden == []C18_Responses /\ [][C18_Effects]_vars

C18_Witness ==
  /\ resp.op \in SubmitOps /\ resp.kind = "Forbidden"
  /\ roleOf(resp.by) = "ETUDIANT"
  /\ respLivraisons(livraisons, resp) # {}

\* the answers to grade requests with a number out of [0, 20], and to a
\* grade in range on a livraison that has no evaluation
C19_Responses ==
  \A user \in Comptes, body \in GradeBodies :
    /\ user.role \in {"FORMATEUR", "DIRECTEUR"}
    /\ body.livraisonId >= 1 /\ body.note.given /\ body.note.clean
    => /\ body.note.num < 0 \/ body.note.num > 20
            => gradeResponse(user, body) = "OutOfRange"
       /\ (/\ body.note.num >= 0 /\ body.note.num <= 20
           /\ Find(livraisons, body.livraisonId) # {}
           /\ evaluationsOf(body.livraisonId) = {})
            => gradeResponse(user, body) = "Created"

\* what a grade step answered OutOfRange stores
C19_Effects ==
  resp'.op = "grade" /\ resp'.kind = "OutOfRange" => UNCHANGED ledger

C20_ScoreInRange == \A e \in evaluations : e.note >= 0 /\ e.note <= 20

\* ------------------------------------------------------------- override
\* what PUT /evaluations/:id answers a director whose reason is absent or
\* empty
C21_Responses ==
  \A user \in Comptes, id \in 1..MaxEvaluations, body \in OverrideBodies :
    (user.role = "DIRECTEUR" /\ body.raisonModification \in {"UNDEF", ""})
    => overrideCheck(user, id, body) = "MissingReason"

\* what a step answered MissingReason stores
C21_Effects ==
  (resp'.op = "override" /\ resp'.kind = "MissingReason") => UNCHANGED ledger

\* C21: an override whose reason is absent or empty is answered
\* MissingReason and leaves every field of the evaluation as it was.
C21_MissingReason == []C21_Responses /\ [][C21_Effects]_vars

C21_Witness ==
  /\ resp.op = "override" /\ resp.kind = "MissingReason"
  /\ Find(evaluations, resp.id) # {}

\* the three audit columns of an evaluation: none written, all written
NeverOverridden(e) ==
  e.modificateurId = 0 /\ e.dateModification = -1 /\ e.raisonModification = "NULL"

FullyStamped(e) ==
  /\ e.modificateurId # 0 /\ e.dateModification >= 0
  /\ e.raisonModification \notin {"NULL", "UNDEF", ""}

C22_Together == \A e \in evaluations : NeverOverridden(e) \/ FullyStamped(e)

\* the row an accepted override writes, whatever else the body holds
C22_Responses ==
  \A user \in Comptes, id \in 1..MaxEvaluations, body \in OverrideBodies :
    \A e \in evaluations :
      (e.id = id /\ overrideCheck(user, id, body) = "Ok")
      => FullyStamped(overridden(e, user, body))

C22_Stamped ==
  (resp'.op = "override" /\ resp'.kind = "Ok")
  => \E e \in evaluations' :
       /\ e.id = resp'.id /\ FullyStamped(e)
       /\ e.dateModification = now' /\ e.modificateurId = directeurOf(resp'.by)

\* C22: in every reachable state modificateurId, dateModification and
\* raisonModification of an evaluation are all absent or all present, and
\* every accepted override writes the three, with or without a note or a
\* comment in its body.
C22_OverrideFieldsTogether ==
  [](C22_Together /\ C22_Responses) /\ [][C22_Stamped]_vars

C22_Witness ==
  /\ resp.op = "override" /\ resp.kind = "Ok"
  /\ \E e \in evaluations :
       /\ e.id = resp.id /\ FullyStamped(e)
       /\ e.dateModification > e.dateEvaluation

\* the row an accepted override writes, field by field
C23_Responses ==
  \A user \in Comptes, id \in 1..MaxEvaluations, body \in OverrideBodies :
    \A e \in evaluations :
      (e.id = id /\ overrideCheck(user, id, body) = "Ok")
      => LET o == overridden(e, user, body)
         IN /\ o.id = e.id /\ o.livraisonId = e.livraisonId
            /\ o.evaluateurId = e.evaluateurId
            /\ o.dateEvaluation = e.dateEvaluation
            /\ (~body.note.given => o.note = e.note)
            /\ (body.note.given => o.note = body.note.num)
            /\ (body.commentaire = "UNDEF" => o.commentaire = e.commentaire)
            /\ (body.commentaire # "UNDEF" => o.commentaire = body.commentaire)
            /\ o.modificateurId = directeurOf(user.userId)
            /\ o.modificateurId # 0

\* what a step answered Ok leaves alone in the table
C23_Effects ==
  (resp'.op = "override" /\ resp'.kind = "Ok")
  => /\ nextEvaluationId' = nextEvaluationId
     /\ {e.id : e \in evaluations'} = {e.id : e \in evaluations}
     /\ \A e \in evaluations : \E o \in evaluations' :
          /\ o.id = e.id /\ o.livraisonId = e.livraisonId
          /\ o.evaluateurId = e.evaluateurId
          /\ o.dateEvaluation = e.dateEvaluation
          /\ (e.id # resp'.id => o = e)
          /\ (e.id = resp'.id => o.modificateurId = directeurOf(resp'.by))

\* C23: an accepted override keeps the evaluation's grader, evaluation
\* date and livraison, changes the note only if the body has one and the
\* comment only if the body has one, and records the director who made it.
C23_OverrideFrame == []C23_Responses /\ [][C23_Effects]_vars

C23_Witness ==
  /\ resp.op = "override" /\ resp.kind = "Ok"
  /\ \E e \in evaluations :
       /\ e.id = resp.id /\ e.evaluateurId = formateurOf(2)
       /\ e.modificateurId = directeurOf(1) /\ e.commentaire = "k"

\* a step that changes the note or the comment of a stored evaluation
C24_OnlyOverride ==
  \A e \in evaluations : \A o \in evaluations' :
    (o.id = e.id /\ (o.note # e.note \/ o.commentaire # e.commentaire))
    => /\ resp'.op = "override" /\ resp'.kind = "Ok" /\ resp'.id = e.id
       /\ FullyStamped(o)

\* an evaluation stays in the table and keeps its audit columns filled
C24_AuditKept ==
  \A e \in evaluations : \E o \in evaluations' :
    o.id = e.id /\ (FullyStamped(e) => FullyStamped(o))

\* C24: in every step of every behaviour, the note or the comment of an
\* existing evaluation changes only in an accepted override, which leaves
\* it with a modifying director, a modification date and a non-empty
\* reason, and no later step removes them; so an evaluation whose note or
\* comment is not the graded one always carries the three.
C24_OverrideOnlyPath == [][C24_OnlyOverride /\ C24_AuditKept]_vars

C24_Witness ==
  /\ resp.op = "override" /\ resp.kind = "Ok"
  /\ \E e \in evaluations :
       e.id = resp.id /\ e.commentaire = "m" /\ e.note = 0 /\ FullyStamped(e)

\* what the two routes answer a caller outside their roles
C25_Responses ==
  \A user \in Comptes :
    /\ \A body \in GradeBodies :
         user.role \notin {"FORMATEUR", "DIRECTEUR"}
         => gradeResponse(user, body) = "Forbidden"
    /\ \A id \in 1..MaxEvaluations, body \in OverrideBodies :
         user.role # "DIRECTEUR"
         => overrideCheck(user, id, body) = "Forbidden"

\* who a step of the ledger succeeded for, and what a refused one stores
C25_Effects ==
  /\ (resp'.op = "grade" /\ resp'.kind = "Created")
     => roleOf(resp'.by) \in {"FORMATEUR", "DIRECTEUR"}
  /\ (resp'.op = "override" /\ resp'.kind = "Ok")
     => roleOf(resp'.by) = "DIRECTEUR"
  /\ (\/ resp'.op = "grade" /\ roleOf(resp'.by) \notin {"FORMATEUR", "DIRECTEUR"}
      \/ resp'.op = "override" /\ roleOf(resp'.by) # "DIRECTEUR")
     => resp'.kind = "Forbidden" /\ UNCHANGED ledger

\* C25: grade succeeds only for an instructor or a director and override
\* only for a director; a call by any other role is answered Forbidden,
\* changes no evaluation and creates none.
C25_RoleGate == []C25_Responses /\ [][C25_Effects]_vars

C25_Witness ==
  /\ resp.op = "override" /\ resp.kind = "Forbidden"
  /\ roleOf(resp.by) = "FORMATEUR"
  /\ Find(evaluations, resp.id) # {}

\* ---------------------------------------------------------------- listing
\* the owners of a work and what the tables hold for them
ownersOf(t) ==
  IF t.typeTravail = "INDIVIDUEL"
  THEN {a.id : a \in {x \in affectations : x.travailId = t.id /\ ~x.estSupprime}}
  ELSE {g.id : g \in {x \in groupes : x.travailId = t.id}}

livraisonsOfOwner(t, ownerId) ==
  IF t.typeTravail = "INDIVIDUEL"
  THEN {l \in livraisons : l.affectationId = ownerId}
  ELSE {l \in livraisons : l.groupeId = ownerId}

C26_Entries ==
  (resp'.op = "listForWork" /\ resp'.kind = "Ok")
  => LET t == CHOOSE x \in travaux : x.id = resp'.id
         entries == resp'.livraisons
     IN /\ UNCHANGED <<now, directory, tracker, ledger>>
        /\ {e.ownerId : e \in entries} = ownersOf(t)
        /\ Cardinality(entries) = Cardinality(ownersOf(t))
        /\ \A e \in entries :
             /\ e.livraisonId = 0 <=> livraisonsOfOwner(t, e.ownerId) = {}
             /\ e.livraisonId # 0
                => \E l \in livraisonsOfOwner(t, e.ownerId) :
                     /\ l.id = e.livraisonId /\ l.statut = e.statut
                     /\ e.evaluationId = 0
                          <=> {v \in evaluations : v.livraisonId = l.id} = {}
                     /\ e.evaluationId # 0
                          => \E v \in evaluations :
                               v.id = e.evaluationId /\ v.livraisonId = l.id

C26_Counts ==
  (resp'.op = "listForWork" /\ resp'.kind = "Ok")
  => LET t == CHOOSE x \in travaux : x.id = resp'.id
         st == resp'.stats
         submitted == {o \in ownersOf(t) : livraisonsOfOwner(t, o) # {}}
     IN /\ st.total = Cardinality(ownersOf(t))
        /\ st.soumises = Cardinality(submitted)
        /\ st.evaluees =
             Cardinality({o \in submitted :
                            \E l \in livraisonsOfOwner(t, o), v \in evaluations :
                              v.livraisonId = l.id})
        /\ st.enRetard =
             Cardinality({o \in submitted :
                            \E l \in livraisonsOfOwner(t, o) :
                              l.statut = "EN_RETARD"})
        /\ st.evaluees <= st.soumises /\ st.soumises <= st.total
        /\ st.enRetard <= st.soumises

\* C26: the listing of a work has exactly one entry for each of its owners
\* (assignments not soft-deleted of an individual work, groups of a
\* collective one) with the owner's livraison and its evaluation if any,
\* and its counts are the number of owners, of owners with a livraison, of
\* owners whose livraison is evaluated and of owners whose livraison is
\* EN_RETARD, so evaluees <= soumises <= total and enRetard <= soumises.
C26_Listing == [][C26_Entries /\ C26_Counts]_vars

C26_Witness ==
  /\ resp.op = "listForWork" /\ resp.kind = "Ok"
  /\ resp.stats = [total |-> 2, soumises |-> 2, evaluees |-> 1, enRetard |-> 1]

\* the work a livraison belongs to, through its assignment or its group
travailOfLivraison(l) ==
  IF l.affectationId # 0 THEN travailOfAffectation(l.affectationId)
  ELSE travailOfGroupe(l.groupeId)

\* C27 as stated: in every reachable state the statut of every livraison
\* agrees with its dateLivraison, EN_RETARD exactly when dateLivraison is
\* after the dateFin of its work.
C27_StatusAgrees ==
  \A l \in livraisons :
    l.statut = "EN_RETARD" <=> l.dateLivraison > travailOfLivraison(l).dateFin

C29_NoOrphan ==
  \A e \in evaluations : Find(livraisons, e.livraisonId) # {}

C29_GradedKept ==
  \A l \in livraisons :
    evaluationsOf(l.id) # {} => \E k \in livraisons' : k.id = l.id

\* C29 as stated: in every interleaving of grade and withdraw on a
\* livraison, every evaluation refers to a livraison that exists, and no
\* step deletes a livraison that has an evaluation.
C29_GradedNeverWithdrawn == []C29_NoOrphan /\ [][C29_GradedKept]_vars

\* C30 as stated: in every interleaving of grade and amend on a livraison,
\* no step changes the contenu or the fichierUrl of a livraison that has an
\* evaluation.
C30_GradedContentKept ==
  [][\A l \in livraisons : \A k \in livraisons' :
       (k.id = l.id /\ evaluationsOf(l.id) # {})
       => k.contenu = l.contenu /\ k.fichierUrl = l.fichierUrl]_vars

====
